---- MODULE Spec2Model ----
(***************************************************************************)
(* Skin Tone Color Advisor: the image-analysis core of                     *)
(* src/app/services/skin_tone.py (detect_skin_tone,                        *)
(* get_color_recommendations, adjust_skin_tone) and the two session        *)
(* handlers of src/app/main.py (handle_upload, adjust_image_skin_tone).    *)
(*                                                                         *)
(* Representation.                                                         *)
(*  - A raster is a numpy uint8 array.  Its pixels are kept run-length     *)
(*    encoded in row-major order: a sequence of runs [rgb, n], n equal     *)
(*    pixels each.  Every per-pixel array of the code (lab_image,          *)
(*    skin_mask, adjusted_lab, adjusted_rgb) has one entry per run.        *)
(*  - Lab values are float64 in the code.  Here they are integers in       *)
(*    units of 1/LabUnit; the conversions work in units of 1/ONE.          *)
(*    A mean or a value derived from a mean is a fraction whose            *)
(*    denominator is the number of pixels averaged, so no comparison       *)
(*    with a cutoff and no difference of two L values is rounded.          *)
(***************************************************************************)
EXTENDS Integers, Sequences, FiniteSets

VARIABLES image, pc, call, result, user_data

vars == <<image, pc, call, result, user_data>>

(***************************************************************************)
(* Fixed-point arithmetic for the colour conversions (skimage.color).      *)
(***************************************************************************)
\* One unit of the Lab channels: 1000 stands for 1.0.
LabUnit == 1000

\* One unit of the conversions' intermediate values (linear RGB, XYZ, f).
ONE == 1000000

Abs(x) == IF x < 0 THEN -x ELSE x

\* a * b / ONE for |a|, |b| < 2^22, rounded toward zero, without leaving 32 bits.
MulScale(a, b) ==
    LET s  == IF (a < 0) = (b < 0) THEN 1 ELSE -1
        ah == Abs(a) \div 1000
        al == Abs(a) % 1000
        bh == Abs(b) \div 1000
        bl == Abs(b) % 1000
    IN  s * (ah * bh + ((ah * bl + al * bh + ((al * bl) \div 1000)) \div 1000))

Cube(t) == MulScale(MulScale(t, t), t)

\* The largest f in lo..hi-1 with f^3 <= t (bisection).
RECURSIVE CubeRootIn(_, _, _)
CubeRootIn(t, lo, hi) ==
    IF hi - lo <= 1 THEN lo
    ELSE LET mid == (lo + hi) \div 2
         IN  IF Cube(mid) <= t THEN CubeRootIn(t, mid, hi) ELSE CubeRootIn(t, lo, mid)

CubeRoot(t) == CubeRootIn(t, 0, 2097152)

\* Rounding of a value in units of 1/ONE to units of 1/LabUnit.
ToLabUnit(v) == (v + 500) \div 1000

\* sRGB decoding: srgb_linear[c + 1] is the linear value of the 8-bit sample c,
\* ((c/255 + 0.055) / 1.055)^2.4 above 0.04045 and (c/255) / 12.92 below.
srgb_linear ==
    <<
       0, 304, 607, 911, 1214, 1518, 1821, 2125, 2428, 2732, 3035, 3347,
       3677, 4025, 4391, 4777, 5182, 5605, 6049, 6512, 6995, 7499, 8023, 8568,
       9134, 9721, 10330, 10960, 11612, 12286, 12983, 13702, 14444, 15209, 15996, 16807,
       17642, 18500, 19382, 20289, 21219, 22174, 23153, 24158, 25187, 26241, 27321, 28426,
       29557, 30713, 31896, 33105, 34340, 35601, 36889, 38204, 39546, 40915, 42311, 43735,
       45186, 46665, 48172, 49707, 51269, 52861, 54480, 56128, 57805, 59511, 61246, 63010,
       64803, 66626, 68478, 70360, 72272, 74214, 76185, 78187, 80220, 82283, 84376, 86500,
       88656, 90842, 93059, 95307, 97587, 99899, 102242, 104616, 107023, 109462, 111932, 114435,
       116971, 119538, 122139, 124772, 127438, 130136, 132868, 135633, 138432, 141263, 144128, 147027,
       149960, 152926, 155926, 158961, 162029, 165132, 168269, 171441, 174647, 177888, 181164, 184475,
       187821, 191202, 194618, 198069, 201556, 205079, 208637, 212231, 215861, 219526, 223228, 226966,
       230740, 234551, 238398, 242281, 246201, 250158, 254152, 258183, 262251, 266356, 270498, 274677,
       278894, 283149, 287441, 291771, 296138, 300544, 304987, 309469, 313989, 318547, 323143, 327778,
       332452, 337164, 341914, 346704, 351533, 356400, 361307, 366253, 371238, 376262, 381326, 386429,
       391572, 396755, 401978, 407240, 412543, 417885, 423268, 428690, 434154, 439657, 445201, 450786,
       456411, 462077, 467784, 473531, 479320, 485150, 491021, 496933, 502886, 508881, 514918, 520996,
       527115, 533276, 539479, 545724, 552011, 558340, 564712, 571125, 577580, 584078, 590619, 597202,
       603827, 610496, 617207, 623960, 630757, 637597, 644480, 651406, 658375, 665387, 672443, 679542,
       686685, 693872, 701102, 708376, 715694, 723055, 730461, 737910, 745404, 752942, 760525, 768151,
       775822, 783538, 791298, 799103, 806952, 814847, 822786, 830770, 838799, 846873, 854993, 863157,
       871367, 879622, 887923, 896269, 904661, 913099, 921582, 930111, 938686, 947307, 955973, 964686,
       973445, 982251, 991102, 1000000 >>

\* xyz_from_rgb of skimage.color, each row divided by the D65 white point
\* (0.95047, 1.0, 1.08883) that xyz2lab divides by.
xyz_from_rgb ==
    << <<433946, 376214, 189825>>,
       <<212671, 715160, 72169>>,
       <<17757, 109469, 872705>> >>

\* rgb_from_xyz (the inverse of xyz_from_rgb), each column multiplied by the
\* white point that lab2xyz multiplies by.
rgb_from_xyz ==
    << <<3079980, -1537152, -542821>>,
       <<-921248, 1875990, 45247>>,
       <<52890, -204041, 1151232>> >>

Dot(row, v) == MulScale(row[1], v[1]) + MulScale(row[2], v[2]) + MulScale(row[3], v[3])

\* xyz2lab's f: the cube root above 0.008856, 7.787 t + 16/116 below.
lab_f(t) == IF t > 8856 THEN CubeRoot(t) ELSE MulScale(7787000, t) + 137931

\* color.rgb2lab on one pixel: sRGB decoding, linear RGB -> XYZ / white, XYZ -> Lab.
rgb2lab_pixel(rgb) ==
    LET lin == <<srgb_linear[rgb[1] + 1], srgb_linear[rgb[2] + 1], srgb_linear[rgb[3] + 1]>>
        fx  == lab_f(Dot(xyz_from_rgb[1], lin))
        fy  == lab_f(Dot(xyz_from_rgb[2], lin))
        fz  == lab_f(Dot(xyz_from_rgb[3], lin))
    IN  << ToLabUnit(116 * fy - 16 * ONE),
           ToLabUnit(500 * (fx - fy)),
           ToLabUnit(200 * (fy - fz)) >>

\* lab2xyz's inverse of f: the cube above 0.2068966, (t - 16/116) / 7.787 below.
lab_finv(t) == IF t > 206896 THEN Cube(t) ELSE ((t - 137931) * 1000) \div 7787

\* The 8-bit sample of a linear value v: the sRGB encoding clipped to [0, 1],
\* times 255, clipped to [0, 255] and truncated by astype(uint8); it is the
\* largest c whose linear value is at most v.
RECURSIVE SampleIn(_, _, _)
SampleIn(v, lo, hi) ==
    IF hi - lo <= 1 THEN lo
    ELSE LET mid == (lo + hi) \div 2
         IN  IF srgb_linear[mid + 1] <= v THEN SampleIn(v, mid, hi) ELSE SampleIn(v, lo, mid)

to_uint8(v) == IF v < 0 THEN 0 ELSE SampleIn(v, 0, 256)

\* color.lab2rgb on one pixel followed by lines 251: Lab -> XYZ (z < 0 is set
\* to 0), XYZ -> linear RGB, sRGB encoding, scaling to 8 bits.
lab2rgb_pixel(lab) ==
    LET y   == ((lab[1] + 16 * LabUnit) * 1000) \div 116
        x   == y + 2 * lab[2]
        z0  == y - 5 * lab[3]
        z   == IF z0 < 0 THEN 0 ELSE z0
        xyz == <<lab_finv(x), lab_finv(y), lab_finv(z)>>
    IN  << to_uint8(Dot(rgb_from_xyz[1], xyz)),
           to_uint8(Dot(rgb_from_xyz[2], xyz)),
           to_uint8(Dot(rgb_from_xyz[3], xyz)) >>

(***************************************************************************)
(* Module constants of skin_tone.py.                                       *)
(***************************************************************************)
SKIN_TONE_CATEGORIES == <<"Fair", "Light", "Medium", "Olive", "Tan", "Deep", "Dark">>

\* A hex colour string "#RRGGBB" is the sequence of its 7 characters.
COLOR_RECOMMENDATIONS ==
    [
      Fair |->
        << <<"#", "E", "6", "B", "3", "B", "3">>,
           <<"#", "D", "1", "E", "6", "B", "3">>,
           <<"#", "B", "3", "E", "6", "C", "C">>,
           <<"#", "B", "3", "C", "C", "E", "6">>,
           <<"#", "D", "1", "B", "3", "E", "6">>,
           <<"#", "8", "0", "0", "0", "0", "0">>,
           <<"#", "0", "0", "8", "0", "8", "0">> >>,
      Light |->
        << <<"#", "F", "F", "B", "6", "C", "1">>,
           <<"#", "9", "8", "F", "B", "9", "8">>,
           <<"#", "A", "D", "D", "8", "E", "6">>,
           <<"#", "D", "D", "A", "0", "D", "D">>,
           <<"#", "F", "0", "8", "0", "8", "0">>,
           <<"#", "4", "6", "8", "2", "B", "4">>,
           <<"#", "5", "5", "6", "B", "2", "F">> >>,
      Medium |->
        << <<"#", "F", "F", "6", "3", "4", "7">>,
           <<"#", "6", "B", "8", "E", "2", "3">>,
           <<"#", "4", "1", "6", "9", "E", "1">>,
           <<"#", "B", "A", "5", "5", "D", "3">>,
           <<"#", "2", "0", "B", "2", "A", "A">>,
           <<"#", "C", "D", "5", "C", "5", "C">>,
           <<"#", "D", "A", "A", "5", "2", "0">> >>,
      Olive |->
        << <<"#", "F", "F", "4", "5", "0", "0">>,
           <<"#", "2", "E", "8", "B", "5", "7">>,
           <<"#", "9", "9", "3", "2", "C", "C">>,
           <<"#", "8", "B", "4", "5", "1", "3">>,
           <<"#", "0", "0", "8", "B", "8", "B">>,
           <<"#", "B", "8", "8", "6", "0", "B">>,
           <<"#", "C", "7", "1", "5", "8", "5">> >>,
      Tan |->
        << <<"#", "F", "F", "8", "C", "0", "0">>,
           <<"#", "0", "0", "6", "4", "0", "0">>,
           <<"#", "8", "B", "0", "0", "8", "B">>,
           <<"#", "E", "9", "9", "6", "7", "A">>,
           <<"#", "8", "F", "B", "C", "8", "F">>,
           <<"#", "4", "8", "3", "D", "8", "B">>,
           <<"#", "B", "2", "2", "2", "2", "2">> >>,
      Deep |->
        << <<"#", "F", "F", "A", "5", "0", "0">>,
           <<"#", "0", "0", "F", "F", "0", "0">>,
           <<"#", "F", "F", "0", "0", "F", "F">>,
           <<"#", "0", "0", "F", "F", "F", "F">>,
           <<"#", "F", "F", "F", "F", "0", "0">>,
           <<"#", "8", "0", "0", "0", "8", "0">>,
           <<"#", "D", "C", "1", "4", "3", "C">> >>,
      Dark |->
        << <<"#", "F", "F", "D", "7", "0", "0">>,
           <<"#", "7", "C", "F", "C", "0", "0">>,
           <<"#", "F", "F", "1", "4", "9", "3">>,
           <<"#", "0", "0", "B", "F", "F", "F">>,
           <<"#", "F", "0", "E", "6", "8", "C">>,
           <<"#", "A", "D", "F", "F", "2", "F">>,
           <<"#", "F", "F", "6", "9", "B", "4">> >>
    ]

(***************************************************************************)
(* Rasters.                                                                *)
(***************************************************************************)
\* The sRGB colours rasters are painted with: pure blue (no skin band), three
\* colours of the strict band (L about 78.6, 66.1, 51.0) and two colours that
\* are in the lenient band only (L about 37.9 and 88.3).
Palette ==
    { <<0, 0, 255>>, <<233, 185, 149>>, <<200, 150, 120>>, <<160, 110, 85>>,
      <<120, 80, 60>>, <<250, 215, 190>> }

\* Pixels per run: around the 100-pixel threshold, and a single pixel.
RunLengths == {1, 99, 100}

\* The most runs a raster has.
MaxRuns == 2

\* The most runs an uploaded image has.
MaxUploadRuns == 1

Runs == [rgb : Palette, n : RunLengths]

RunSeqs(k) == UNION {[1..j -> Runs] : j \in 1..k}

\* Array shapes: an RGB raster, an RGBA raster (rgb2lab raises ValueError) and a
\* 2-D array with 3 columns (rgb2lab converts it, lab_image[:,:,0] raises
\* IndexError).
Shapes == {"HxWx3", "HxWx4", "Hx3"}

Rasters ==
    {[shape |-> "HxWx3", runs |-> s] : s \in RunSeqs(MaxRuns)}
    \cup {[shape |-> sh, runs |-> s] : sh \in Shapes \ {"HxWx3"}, s \in RunSeqs(1)}

UploadRasters == {[shape |-> "HxWx3", runs |-> s] : s \in RunSeqs(MaxUploadRuns)}

\* Python's None, for a raster-valued and for a string-valued slot.
NoImage == [shape |-> "None", runs |-> <<>>]

None == "None"

\* Skin tone arguments: the 7 categories and strings that are none of them.
ToneStrings == {"Fair", "Light", "Medium", "Olive", "Tan", "Deep", "Dark",
                "Not-A-Category", "medium"}

(***************************************************************************)
(* numpy helpers.                                                          *)
(***************************************************************************)
RECURSIVE SeqSum(_)
SeqSum(s) == IF s = <<>> THEN 0 ELSE s[1] + SeqSum(Tail(s))

\* np.sum(skin_mask): the number of true pixels.
np_sum(skin_mask, arr) ==
    SeqSum([i \in DOMAIN arr |-> IF skin_mask[i] THEN arr[i].n ELSE 0])

\* The sum of lab_image[:,:,0][skin_mask]; np.mean of it is this over np_sum.
sum_L(skin_mask, lab_image) ==
    SeqSum([i \in DOMAIN lab_image |->
               IF skin_mask[i] THEN lab_image[i].lab[1] * lab_image[i].n ELSE 0])

\* np.clip
np_clip(v, lo, hi) == IF v < lo THEN lo ELSE IF v > hi THEN hi ELSE v

\* rgb2lab_pixel on the palette, evaluated once.
palette_lab == [rgb \in Palette |-> rgb2lab_pixel(rgb)]

pixel_lab(rgb) == IF rgb \in Palette THEN palette_lab[rgb] ELSE rgb2lab_pixel(rgb)

\* color.rgb2lab(image) on a 3-channel array.
rgb2lab(img) ==
    [i \in DOMAIN img.runs |-> [lab |-> pixel_lab(img.runs[i].rgb), n |-> img.runs[i].n]]

\* One inclusive range test per channel, and-ed (lines 108-112, 120-124, 190-194).
make_skin_mask(lab_image, l_range, a_range, b_range) ==
    [i \in DOMAIN lab_image |->
        /\ lab_image[i].lab[1] >= l_range[1] * LabUnit
        /\ lab_image[i].lab[1] <= l_range[2] * LabUnit
        /\ lab_image[i].lab[2] >= a_range[1] * LabUnit
        /\ lab_image[i].lab[2] <= a_range[2] * LabUnit
        /\ lab_image[i].lab[3] >= b_range[1] * LabUnit
        /\ lab_image[i].lab[3] <= b_range[2] * LabUnit]

(***************************************************************************)
(* detect_skin_tone (skin_tone.py lines 87-152).                           *)
(***************************************************************************)
\* The pixel count below which a mask is too small (lines 115 and 127).
MIN_SKIN_PIXELS == 100

\* A strict lightness band as wide at the dark end as the lenient one.
strict_l_range_wide == <<30, 80>>

strict_l_range == <<50, 80>>

strict_a_range == <<5, 30>>

strict_b_range == <<10, 40>>

lenient_l_range == <<30, 90>>

lenient_a_range == <<0, 35>>

lenient_b_range == <<5, 45>>

\* The threshold test one pixel off.
insufficient_off_by_one(n) == n < MIN_SKIN_PIXELS - 1

\* np.sum(skin_mask) < 100
insufficient(n) == n < MIN_SKIN_PIXELS

\* The cutoff chain with its first two tests in the wrong order.
classify_misordered(total, n) ==
    IF total >= 70 * LabUnit * n THEN "Light"
    ELSE IF total >= 75 * LabUnit * n THEN "Fair"
    ELSE IF total >= 65 * LabUnit * n THEN "Medium"
    ELSE IF total >= 60 * LabUnit * n THEN "Olive"
    ELSE IF total >= 55 * LabUnit * n THEN "Tan"
    ELSE IF total >= 50 * LabUnit * n THEN "Deep"
    ELSE "Dark"

\* Lines 135-148 on avg_lightness = total / n.
classify(total, n) ==
    IF total >= 75 * LabUnit * n THEN "Fair"
    ELSE IF total >= 70 * LabUnit * n THEN "Light"
    ELSE IF total >= 65 * LabUnit * n THEN "Medium"
    ELSE IF total >= 60 * LabUnit * n THEN "Olive"
    ELSE IF total >= 55 * LabUnit * n THEN "Tan"
    ELSE IF total >= 50 * LabUnit * n THEN "Deep"
    ELSE "Dark"

\* The locals of a call that left its try block by an exception.
DetectRaised ==
    [exc |-> TRUE, ret |-> None, l_range |-> <<0, 0>>, a_range |-> <<0, 0>>,
     b_range |-> <<0, 0>>, skin_mask |-> <<>>, n |-> 0]

\* Lines 102-148 on the converted image: the masks, the count and the
\* category, with the locals at the return.
detect_skin_tone_lab(lab_image) ==
    LET strict    == make_skin_mask(lab_image, strict_l_range, strict_a_range,
                                    strict_b_range)
        relaxed   == insufficient(np_sum(strict, lab_image))
        l_range   == IF relaxed THEN lenient_l_range ELSE strict_l_range
        a_range   == IF relaxed THEN lenient_a_range ELSE strict_a_range
        b_range   == IF relaxed THEN lenient_b_range ELSE strict_b_range
        skin_mask == IF relaxed
                     THEN make_skin_mask(lab_image, l_range, a_range, b_range)
                     ELSE strict
        n         == np_sum(skin_mask, lab_image)
    IN  [exc |-> FALSE,
         ret |-> IF insufficient(n) THEN "Medium"
                 ELSE classify(sum_L(skin_mask, lab_image), n),
         l_range |-> l_range, a_range |-> a_range, b_range |-> b_range,
         skin_mask |-> skin_mask, n |-> n]

\* The try block (lines 98-148): exc tells whether it raised, the other fields
\* are the value returned and the locals at the return.
detect_skin_tone_try(img) ==
    IF img.shape = "HxWx4" THEN DetectRaised          \* line 99: ValueError
    ELSE IF img.shape = "Hx3" THEN DetectRaised       \* line 109: IndexError
    ELSE detect_skin_tone_lab(rgb2lab(img))

\* A version whose except clause is missing: the exception reaches the caller.
detect_skin_tone_uncaught(img) ==
    LET r == detect_skin_tone_try(img)
    IN  [raised |-> r.exc, ret |-> r.ret, frame |-> r]

\* The whole function: the except clause (lines 150-152) returns "Medium".
detect_skin_tone(img) ==
    LET r == detect_skin_tone_try(img)
    IN  [raised |-> FALSE, ret |-> IF r.exc THEN "Medium" ELSE r.ret, frame |-> r]

(***************************************************************************)
(* get_color_recommendations (lines 154-168).                              *)
(***************************************************************************)
\* A version that indexes the table with no membership test: KeyError.
get_color_recommendations_keyerror(skin_tone) ==
    IF skin_tone \in DOMAIN COLOR_RECOMMENDATIONS
    THEN [raised |-> FALSE, ret |-> COLOR_RECOMMENDATIONS[skin_tone]]
    ELSE [raised |-> TRUE, ret |-> <<>>]

get_color_recommendations(skin_tone) ==
    IF skin_tone \in DOMAIN COLOR_RECOMMENDATIONS
    THEN [raised |-> FALSE, ret |-> COLOR_RECOMMENDATIONS[skin_tone]]
    ELSE [raised |-> FALSE, ret |-> COLOR_RECOMMENDATIONS["Medium"]]

(***************************************************************************)
(* adjust_skin_tone (lines 170-257).                                       *)
(***************************************************************************)
target_l_values ==
    [Fair |-> 78, Light |-> 72, Medium |-> 65, Olive |-> 62, Tan |-> 58,
     Deep |-> 52, Dark |-> 45]

target_a_adjustments ==
    [Fair |-> -2, Light |-> -1, Medium |-> 0, Olive |-> 1, Tan |-> 2,
     Deep |-> 3, Dark |-> 4]

target_b_adjustments ==
    [Fair |-> -2, Light |-> -1, Medium |-> 0, Olive |-> 2, Tan |-> 4,
     Deep |-> 5, Dark |-> 6]

\* A dict.get that forgets its default.
dict_get_no_default(d, k, default) == IF k \in DOMAIN d THEN d[k] ELSE 0

\* dict.get(k, default)
dict_get(d, k, default) == IF k \in DOMAIN d THEN d[k] ELSE default

\* Adjustments written to every pixel, the mask ignored.
apply_adjustments_everywhere(lab_image, skin_mask, l_adjustment, den, a_adjustment, b_adjustment) ==
    [i \in DOMAIN lab_image |->
        [L |-> np_clip(lab_image[i].lab[1] * den + l_adjustment, 0, 100 * LabUnit * den),
         a |-> np_clip(lab_image[i].lab[2] + a_adjustment * LabUnit,
                       -127 * LabUnit, 127 * LabUnit),
         b |-> np_clip(lab_image[i].lab[3] + b_adjustment * LabUnit,
                       -127 * LabUnit, 127 * LabUnit),
         n |-> lab_image[i].n]]

\* Adjustments with the L channel left unclipped.
apply_adjustments_unclipped(lab_image, skin_mask, l_adjustment, den, a_adjustment, b_adjustment) ==
    [i \in DOMAIN lab_image |->
        IF skin_mask[i]
        THEN [L |-> lab_image[i].lab[1] * den + l_adjustment,
              a |-> np_clip(lab_image[i].lab[2] + a_adjustment * LabUnit,
                            -127 * LabUnit, 127 * LabUnit),
              b |-> np_clip(lab_image[i].lab[3] + b_adjustment * LabUnit,
                            -127 * LabUnit, 127 * LabUnit),
              n |-> lab_image[i].n]
        ELSE [L |-> lab_image[i].lab[1] * den, a |-> lab_image[i].lab[2],
              b |-> lab_image[i].lab[3], n |-> lab_image[i].n]]

\* Lines 240-245: adjusted_lab is a copy of lab_image whose masked pixels are
\* overwritten.  L is held as a numerator over den, the denominator of
\* l_adjustment; a and b are in units of 1/LabUnit.
apply_adjustments(lab_image, skin_mask, l_adjustment, den, a_adjustment, b_adjustment) ==
    [i \in DOMAIN lab_image |->
        IF skin_mask[i]
        THEN [L |-> np_clip(lab_image[i].lab[1] * den + l_adjustment,
                            0, 100 * LabUnit * den),
              a |-> np_clip(lab_image[i].lab[2] + a_adjustment * LabUnit,
                            -127 * LabUnit, 127 * LabUnit),
              b |-> np_clip(lab_image[i].lab[3] + b_adjustment * LabUnit,
                            -127 * LabUnit, 127 * LabUnit),
              n |-> lab_image[i].n]
        ELSE [L |-> lab_image[i].lab[1] * den, a |-> lab_image[i].lab[2],
              b |-> lab_image[i].lab[3], n |-> lab_image[i].n]]

\* Lines 248-251: color.lab2rgb, then the scaling to uint8.
lab2rgb_uint8(adjusted_lab, den) ==
    [shape |-> "HxWx3",
     runs  |-> [i \in DOMAIN adjusted_lab |->
                  [rgb |-> lab2rgb_pixel(<<adjusted_lab[i].L \div den, adjusted_lab[i].a,
                                           adjusted_lab[i].b>>),
                   n   |-> adjusted_lab[i].n]]]

AdjustRaised ==
    [exc |-> TRUE, ret |-> NoImage, lab_image |-> <<>>, skin_mask |-> <<>>,
     current_l |-> 0, den |-> 1, target_l |-> 0, l_adjustment |-> 0,
     a_adjustment |-> 0, b_adjustment |-> 0, adjusted_lab |-> <<>>]

\* Lines 186-251 on the converted image.  current_l is total / den: the mean
\* L of the masked pixels, or 65 when the mask is empty.  l_adjustment is the
\* numerator of target_l - current_l over den.
adjust_skin_tone_lab(lab_image, target_tone) ==
    LET skin_mask    == make_skin_mask(lab_image, lenient_l_range, lenient_a_range,
                                       lenient_b_range)
        n            == np_sum(skin_mask, lab_image)
        den          == IF n > 0 THEN n ELSE 1
        current_l    == IF n > 0 THEN sum_L(skin_mask, lab_image) ELSE 65 * LabUnit
        target_l     == dict_get(target_l_values, target_tone, 65)
        l_adjustment == target_l * LabUnit * den - current_l
        a_adjustment == dict_get(target_a_adjustments, target_tone, 0)
        b_adjustment == dict_get(target_b_adjustments, target_tone, 0)
        adjusted_lab == apply_adjustments(lab_image, skin_mask, l_adjustment, den,
                                          a_adjustment, b_adjustment)
    IN  [exc |-> FALSE, ret |-> lab2rgb_uint8(adjusted_lab, den),
         lab_image |-> lab_image, skin_mask |-> skin_mask,
         current_l |-> current_l, den |-> den, target_l |-> target_l,
         l_adjustment |-> l_adjustment, a_adjustment |-> a_adjustment,
         b_adjustment |-> b_adjustment, adjusted_lab |-> adjusted_lab]

\* The try block (lines 182-253).
adjust_skin_tone_try(img, target_tone) ==
    IF img.shape = "HxWx4" THEN AdjustRaised          \* line 183: ValueError
    ELSE IF img.shape = "Hx3" THEN AdjustRaised       \* line 191: IndexError
    ELSE adjust_skin_tone_lab(rgb2lab(img), target_tone)

\* A version whose except clause is missing.
adjust_skin_tone_uncaught(img, target_tone) ==
    LET r == adjust_skin_tone_try(img, target_tone)
    IN  [raised |-> r.exc, ret |-> r.ret, same_object |-> FALSE, image |-> img,
         frame |-> r]

\* The whole function: the except clause (lines 255-257) returns the argument
\* itself.  same_object tells whether the value returned is the argument's
\* array; image is the argument's array after the call, which no line writes.
adjust_skin_tone(img, target_tone) ==
    LET r == adjust_skin_tone_try(img, target_tone)
    IN  [raised |-> FALSE, ret |-> IF r.exc THEN img ELSE r.ret,
         same_object |-> r.exc, image |-> img, frame |-> r]

(***************************************************************************)
(* The session handlers of app/main.py.                                    *)
(***************************************************************************)
\* The bundle index() creates for a new session (lines 36-42).
NewSession ==
    [image_path |-> None, original_image |-> NoImage, skin_tone |-> None,
     recommended_colors |-> <<>>, adjusted_image |-> NoImage]

\* What an upload event carries: no file at all, a file that Image.open,
\* convert('RGB') or resize rejects, or a file whose decoded raster (resized
\* when a side exceeds 1000 pixels, lines 143-150) is img.
UploadEvents ==
    {[kind |-> "none", img |-> NoImage], [kind |-> "bad", img |-> NoImage]}
    \cup {[kind |-> "image", img |-> r] : r \in UploadRasters}

\* An upload that keeps the adjusted image of the previous upload.
handle_upload_keeps_adjusted(ud, event) ==
    IF event.kind # "image" THEN ud
    ELSE
        LET skin_tone == detect_skin_tone(event.img).ret
        IN  [image_path         |-> "uploads/tmp",
             original_image     |-> event.img,
             skin_tone          |-> skin_tone,
             recommended_colors |-> get_color_recommendations(skin_tone).ret,
             adjusted_image     |-> ud.adjusted_image]

\* handle_upload (lines 128-178) on the session's bundle ud.  With no file the
\* loop body does not run; a file that cannot be decoded raises before line
\* 153 and the inner except leaves the bundle as it was.
handle_upload(ud, event) ==
    IF event.kind # "image" THEN ud
    ELSE
        LET skin_tone == detect_skin_tone(event.img).ret
        IN  [image_path         |-> "uploads/tmp",
             original_image     |-> event.img,
             skin_tone          |-> skin_tone,
             recommended_colors |-> get_color_recommendations(skin_tone).ret,
             adjusted_image     |-> NoImage]

\* adjust_image_skin_tone (lines 180-204) on the session's bundle ud.
adjust_image_skin_tone(ud, new_tone) ==
    IF ud.original_image = NoImage THEN ud
    ELSE
        [ud EXCEPT
            !.adjusted_image     = adjust_skin_tone(ud.original_image, new_tone).ret,
            !.skin_tone          = new_tone,
            !.recommended_colors = get_color_recommendations(new_tone).ret]

(***************************************************************************)
(* The core as a state machine: a caller holds one raster, calls one of    *)
(* the three functions on it and takes the result.                         *)
(***************************************************************************)
NoCall == [op |-> "none", arg |-> None]

NoResult == [raised |-> FALSE, ret |-> None]

Init ==
    /\ image \in Rasters
    /\ pc = "idle"
    /\ call = NoCall
    /\ result = NoResult
    /\ user_data = NewSession

DetectSkinTone ==
    /\ pc = "idle"
    /\ call' = [op |-> "detect_skin_tone", arg |-> None]
    /\ result' = detect_skin_tone(image)
    /\ pc' = "returned"
    /\ UNCHANGED <<image, user_data>>

GetColorRecommendations ==
    /\ pc = "idle"
    /\ \E skin_tone \in ToneStrings :
          /\ call' = [op |-> "get_color_recommendations", arg |-> skin_tone]
          /\ result' = get_color_recommendations(skin_tone)
    /\ pc' = "returned"
    /\ UNCHANGED <<image, user_data>>

AdjustSkinTone ==
    /\ pc = "idle"
    /\ \E target_tone \in ToneStrings :
          /\ call' = [op |-> "adjust_skin_tone", arg |-> target_tone]
          /\ result' = adjust_skin_tone(image, target_tone)
    /\ image' = result'.image
    /\ pc' = "returned"
    /\ UNCHANGED user_data

\* The caller takes the result and is ready for the next call.
Return ==
    /\ pc = "returned"
    /\ pc' = "idle"
    /\ call' = NoCall
    /\ result' = NoResult
    /\ UNCHANGED <<image, user_data>>

Next == DetectSkinTone \/ GetColorRecommendations \/ AdjustSkinTone \/ Return

Spec == Init /\ [][Next]_vars

(***************************************************************************)
(* One session of the application: uploads and tone selections.            *)
(***************************************************************************)
SessionInit ==
    /\ image = NoImage
    /\ pc = "idle"
    /\ call = NoCall
    /\ result = NoResult
    /\ user_data = NewSession

HandleUpload ==
    /\ \E event \in UploadEvents : user_data' = handle_upload(user_data, event)
    /\ UNCHANGED <<image, pc, call, result>>

\* The select widget offers SKIN_TONE_CATEGORIES (line 93).
AdjustImageSkinTone ==
    /\ \E i \in DOMAIN SKIN_TONE_CATEGORIES :
          user_data' = adjust_image_skin_tone(user_data, SKIN_TONE_CATEGORIES[i])
    /\ UNCHANGED <<image, pc, call, result>>

SessionNext == HandleUpload \/ AdjustImageSkinTone

SessionSpec == SessionInit /\ [][SessionNext]_vars

(***************************************************************************)
(* Properties.  The definitions below state what is checked; they read the *)
(* bands and cutoffs from the specification, not from the operators above. *)
(***************************************************************************)
Categories == {"Fair", "Light", "Medium", "Olive", "Tan", "Deep", "Dark"}

IsStrictSkin(lab) ==
    /\ lab[1] \in (50 * LabUnit)..(80 * LabUnit)
    /\ lab[2] \in (5 * LabUnit)..(30 * LabUnit)
    /\ lab[3] \in (10 * LabUnit)..(40 * LabUnit)

IsLenientSkin(lab) ==
    /\ lab[1] \in (30 * LabUnit)..(90 * LabUnit)
    /\ lab[2] \in (0 * LabUnit)..(35 * LabUnit)
    /\ lab[3] \in (5 * LabUnit)..(45 * LabUnit)

\* The number of pixels of img whose Lab value satisfies P, and the sum of
\* their L values.
PixelCount(img, P(_)) ==
    SeqSum([i \in DOMAIN img.runs |->
               IF P(pixel_lab(img.runs[i].rgb)) THEN img.runs[i].n ELSE 0])

LTotal(img, P(_)) ==
    SeqSum([i \in DOMAIN img.runs |->
               IF P(pixel_lab(img.runs[i].rgb))
               THEN pixel_lab(img.runs[i].rgb)[1] * img.runs[i].n ELSE 0])

\* The category of the mean lightness total / n: the first cutoff reached,
\* in the order of SKIN_TONE_CATEGORIES, and Dark when none is.
Cutoffs == <<75, 70, 65, 60, 55, 50>>

CategoryOfMean(total, n) ==
    LET reached == {k \in DOMAIN Cutoffs : total >= Cutoffs[k] * LabUnit * n}
    IN  IF reached = {} THEN "Dark"
        ELSE SKIN_TONE_CATEGORIES[CHOOSE k \in reached : \A j \in reached : k <= j]

Returned(op) == pc = "returned" /\ call.op = op

WellFormed(img) == img.shape = "HxWx3"

IsHexColor(c) ==
    /\ Len(c) = 7
    /\ c[1] = "#"
    /\ \A k \in 2..7 : c[k] \in {"0", "1", "2", "3", "4", "5", "6", "7", "8", "9",
                                 "A", "B", "C", "D", "E", "F"}

\* C1: detect_skin_tone never raises and returns one of the 7 categories for
\* every raster, a raster on which the conversion or the masking raises
\* included.
C1_DetectTotal ==
    Returned("detect_skin_tone") => (~result.raised /\ result.ret \in Categories)

\* A raster the conversion rejects was classified (as Medium).
C1_Witness ==
    /\ Returned("detect_skin_tone")
    /\ image.shape = "HxWx4"
    /\ result.frame.exc
    /\ result.ret = "Medium"

\* C2: when the chosen mask (the strict one if it has at least 100 pixels,
\* else the lenient one) has at least 100 pixels, the result is the category
\* of the mean L of that mask's pixels under the cutoffs 75, 70, 65, 60, 55,
\* 50, each inclusive, first match.
C2_ClassifiedByMean ==
    (Returned("detect_skin_tone") /\ WellFormed(image)) =>
        LET strict == PixelCount(image, IsStrictSkin) >= 100
            n      == IF strict THEN PixelCount(image, IsStrictSkin)
                      ELSE PixelCount(image, IsLenientSkin)
            total  == IF strict THEN LTotal(image, IsStrictSkin)
                      ELSE LTotal(image, IsLenientSkin)
        IN  n >= 100 => result.ret = CategoryOfMean(total, n)

\* Two runs of different strict-band colours whose mean falls in a category
\* neither colour has alone.
C2_Witness ==
    /\ Returned("detect_skin_tone")
    /\ WellFormed(image)
    /\ PixelCount(image, IsStrictSkin) = 200
    /\ result.ret = "Olive"
    /\ \A i \in DOMAIN image.runs :
          CategoryOfMean(pixel_lab(image.runs[i].rgb)[1], 1) # "Olive"

\* C3: when the strict and the lenient mask both have fewer than 100 pixels
\* the result is Medium, whatever the L of the pixels that matched.
C3_SparseIsMedium ==
    (/\ Returned("detect_skin_tone")
     /\ WellFormed(image)
     /\ PixelCount(image, IsStrictSkin) < 100
     /\ PixelCount(image, IsLenientSkin) < 100) => result.ret = "Medium"

\* 99 matching pixels whose mean lightness is not in the Medium interval.
C3_Witness ==
    /\ Returned("detect_skin_tone")
    /\ WellFormed(image)
    /\ PixelCount(image, IsLenientSkin) = 99
    /\ CategoryOfMean(LTotal(image, IsLenientSkin), 99) = "Fair"
    /\ result.ret = "Medium"

\* C4: get_color_recommendations never raises; a known category gets its own
\* table entry, any other string the Medium entry; the result has exactly 7
\* entries of the form #RRGGBB.
C4_RecommendationsTotal ==
    Returned("get_color_recommendations") =>
        /\ ~result.raised
        /\ call.arg \in Categories => result.ret = COLOR_RECOMMENDATIONS[call.arg]
        /\ call.arg \notin Categories => result.ret = COLOR_RECOMMENDATIONS["Medium"]
        /\ Len(result.ret) = 7
        /\ \A k \in 1..7 : IsHexColor(result.ret[k])

C4_Witness ==
    /\ Returned("get_color_recommendations")
    /\ call.arg = "Not-A-Category"
    /\ result.ret[1] = <<"#", "F", "F", "6", "3", "4", "7">>

\* C5: after adjust_skin_tone every pixel outside the lenient mask has exactly
\* its original L, a and b in adjusted_lab, and in the raster returned each of
\* its samples is within 1 of the input's (the conversion round trip).
C5_UnmaskedUnchanged ==
    (Returned("adjust_skin_tone") /\ ~result.frame.exc) =>
        \A i \in DOMAIN image.runs :
            LET lab == pixel_lab(image.runs[i].rgb)
                adj == result.frame.adjusted_lab[i]
                out == result.ret.runs[i]
            IN  ~IsLenientSkin(lab) =>
                    /\ adj.L = lab[1] * result.frame.den
                    /\ adj.a = lab[2]
                    /\ adj.b = lab[3]
                    /\ out.n = image.runs[i].n
                    /\ \A ch \in 1..3 : out.rgb[ch] - image.runs[i].rgb[ch] \in -1..1

\* A raster with masked and unmasked pixels, adjusted toward Dark: the masked
\* pixels changed, the unmasked did not.
C5_Witness ==
    /\ Returned("adjust_skin_tone")
    /\ ~result.frame.exc
    /\ call.arg = "Dark"
    /\ Len(image.runs) = 2
    /\ ~IsLenientSkin(pixel_lab(image.runs[1].rgb))
    /\ IsLenientSkin(pixel_lab(image.runs[2].rgb))
    /\ result.frame.adjusted_lab[2].a # pixel_lab(image.runs[2].rgb)[2]

\* C6: adjust_skin_tone never raises and leaves its argument's pixels as they
\* were; on success the value returned is a new raster, on a failure of an
\* internal step it is the argument itself.
C6_AdjustTotalNoMutation ==
    [][(pc = "idle" /\ pc' = "returned" /\ call'.op = "adjust_skin_tone") =>
          /\ ~result'.raised
          /\ image' = image
          /\ result'.image = image
          /\ result'.frame.exc => (result'.same_object /\ result'.ret = image)
          /\ ~result'.frame.exc => (~result'.same_object /\ WellFormed(result'.ret))]_vars

C6_Witness ==
    /\ Returned("adjust_skin_tone")
    /\ image.shape = "Hx3"
    /\ result.frame.exc
    /\ result.same_object
    /\ result.ret = image

\* C7: for a target that is none of the 7 categories adjust_skin_tone does not
\* fail and uses target_l = 65 and zero a and b adjustments; its output is the
\* output for the target Medium.
C7_UnknownTargetIsMedium ==
    (Returned("adjust_skin_tone") /\ call.arg \notin Categories) =>
        /\ ~result.raised
        /\ ~result.frame.exc =>
              /\ result.frame.target_l = 65
              /\ result.frame.a_adjustment = 0
              /\ result.frame.b_adjustment = 0
        /\ result.ret = adjust_skin_tone(image, "Medium").ret

\* An unknown target on a raster with skin whose mean is not 65: pixels move.
C7_Witness ==
    /\ Returned("adjust_skin_tone")
    /\ call.arg = "Not-A-Category"
    /\ ~result.frame.exc
    /\ PixelCount(image, IsLenientSkin) >= 100
    /\ result.frame.l_adjustment # 0
    /\ result.ret # image

\* The adjustment of the call: the numerator of target_l - current_l over the
\* number of masked pixels (over 1, with current_l = 65, when none is masked).
MaskedCount(img) == PixelCount(img, IsLenientSkin)

Denominator(img) == IF MaskedCount(img) > 0 THEN MaskedCount(img) ELSE 1

LAdjustment(img, target_l) ==
    IF MaskedCount(img) > 0
    THEN target_l * LabUnit * MaskedCount(img) - LTotal(img, IsLenientSkin)
    ELSE (target_l - 65) * LabUnit

\* C8 as stated: every masked pixel's L changes by exactly l_adjustment.
C8_UniformShift ==
    (Returned("adjust_skin_tone") /\ ~result.frame.exc) =>
        \A i \in DOMAIN image.runs :
            LET lab == pixel_lab(image.runs[i].rgb)
            IN  IsLenientSkin(lab) =>
                    result.frame.adjusted_lab[i].L - lab[1] * Denominator(image)
                        = LAdjustment(image, result.frame.target_l)

\* C8 (amended): every masked pixel's L becomes clip(L + l_adjustment, 0, 100)
\* with the one l_adjustment = target_l - current_l, so the change is
\* l_adjustment exactly for the pixels where L + l_adjustment is in [0, 100].
C8_UniformShiftClipped ==
    (Returned("adjust_skin_tone") /\ ~result.frame.exc) =>
        /\ result.frame.den = Denominator(image)
        /\ result.frame.l_adjustment = LAdjustment(image, result.frame.target_l)
        /\ \A i \in DOMAIN image.runs :
              LET lab     == pixel_lab(image.runs[i].rgb)
                  shifted == lab[1] * Denominator(image)
                                 + LAdjustment(image, result.frame.target_l)
                  top     == 100 * LabUnit * Denominator(image)
                  new     == result.frame.adjusted_lab[i].L
              IN  IsLenientSkin(lab) =>
                      /\ shifted \in 0..top => new = shifted
                      /\ shifted < 0 => new = 0
                      /\ shifted > top => new = top

\* A masked pixel whose shifted L leaves [0, 100] at the top, beside one whose
\* shifted L stays inside.
C8_Witness ==
    /\ Returned("adjust_skin_tone")
    /\ ~result.frame.exc
    /\ \E i, j \in DOMAIN image.runs :
          /\ IsLenientSkin(pixel_lab(image.runs[i].rgb))
          /\ IsLenientSkin(pixel_lab(image.runs[j].rgb))
          /\ pixel_lab(image.runs[i].rgb)[1] * Denominator(image)
                + LAdjustment(image, result.frame.target_l)
                > 100 * LabUnit * Denominator(image)
          /\ result.frame.adjusted_lab[i].L = 100 * LabUnit * Denominator(image)
          /\ result.frame.adjusted_lab[j].L
                = pixel_lab(image.runs[j].rgb)[1] * Denominator(image)
                      + LAdjustment(image, result.frame.target_l)

\* C9: when the strict mask has at least 100 pixels the classification uses
\* it, the mean L is in [50, 80] and the result is not Dark; Dark, and a mean
\* outside [50, 80], occur on the lenient pass only.
C9_StrictNeverDark ==
    (Returned("detect_skin_tone") /\ WellFormed(image)) =>
        LET strict == PixelCount(image, IsStrictSkin) >= 100
            total  == sum_L(result.frame.skin_mask, rgb2lab(image))
            n      == result.frame.n
        IN  /\ strict <=> result.frame.l_range = <<50, 80>>
            /\ strict => /\ result.ret # "Dark"
                         /\ total >= 50 * LabUnit * n
                         /\ total <= 80 * LabUnit * n
            /\ (result.ret = "Dark" \/ total < 50 * LabUnit * n \/ total > 80 * LabUnit * n)
                  => result.frame.l_range = <<30, 90>>

\* A strict pass at the dark end of the band (Deep), which the lenient band
\* would not have changed.
C9_Witness ==
    /\ Returned("detect_skin_tone")
    /\ WellFormed(image)
    /\ PixelCount(image, IsStrictSkin) >= 100
    /\ PixelCount(image, IsLenientSkin) > PixelCount(image, IsStrictSkin)
    /\ result.frame.l_range = <<50, 80>>
    /\ result.ret = "Deep"

\* C10: in a session, after any uploads and tone selections, the palette is
\* the one of the current skin tone and the adjusted image is absent or is
\* adjust_skin_tone of the current original with the current skin tone; a
\* change of the original clears the adjusted image.
C10_BundleConsistent ==
    /\ [](IF user_data.original_image = NoImage
          THEN user_data = NewSession
          ELSE /\ user_data.skin_tone \in Categories
               /\ user_data.recommended_colors
                     = get_color_recommendations(user_data.skin_tone).ret
               /\ user_data.adjusted_image \in
                     {NoImage,
                      adjust_skin_tone(user_data.original_image,
                                       user_data.skin_tone).ret})
    /\ [][user_data'.original_image # user_data.original_image
             => user_data'.adjusted_image = NoImage]_vars

\* A tone was selected after an upload: the adjusted image is present and
\* differs from the original.
C10_Witness ==
    /\ user_data.original_image # NoImage
    /\ user_data.skin_tone = "Dark"
    /\ user_data.adjusted_image # NoImage
    /\ user_data.adjusted_image # user_data.original_image

====
